---- MODULE Spec2Model ----
(***************************************************************************)
(* borp: the filesystem lock of src/lock.rs.                               *)
(*                                                                         *)
(* Several processes share one lock directory.  Each process owns at most  *)
(* one Lock object.  The shared state is the filesystem: the guard         *)
(* directory "{base}.exclusive", the marker files inside it, and the       *)
(* roster file "{base}.roster".  A step of the model is one filesystem     *)
(* call of one process together with the local computation that follows    *)
(* it, so the calls of different processes interleave as they do on a      *)
(* real filesystem.                                                        *)
(***************************************************************************)
EXTENDS Integers, Sequences, FiniteSets, TLC

\* Number of processes sharing the lock directory.
NumProcs == 2

\* Number of I/O errors the filesystem may inject in one behaviour of SpecIO.
MaxFaults == 1

Procs == 1..NumProcs

VARIABLES
    pc,          \* [Procs -> position of the process in the call it is running]
    op,          \* [Procs -> the Lock method the caller called last]
    ret,         \* [Procs -> outcome of that call, "pending" while it runs]
    err,         \* [Procs -> the error a running call is about to return]
    exclusive,   \* [Procs -> BOOLEAN] Lock.exclusive is Some(ExclusiveLock)
    roster,      \* [Procs -> Roster] Lock.roster, the in-memory roster
    held,        \* [Procs -> State] what the caller holds through the Lock
    guardDir,    \* BOOLEAN: the directory "{base}.exclusive" exists
    markers,     \* set of file names inside the guard directory
    rosterFile,  \* the file "{base}.roster": [exists, data]
    orphan,      \* processes whose open roster file was unlinked under them
    faults       \* number of I/O errors injected so far

vars == <<pc, op, ret, err, exclusive, roster, held,
          guardDir, markers, rosterFile, orphan, faults>>

fs == <<guardDir, markers, rosterFile>>

----------------------------------------------------------------------------
(* ProcessId *)

Host == "host"

\* get_process_id(): (hostname, pid, 0); the pid of process p is p.
get_process_id(p) == <<Host, p, 0>>

\* ProcessId::to_filename: format!("{}.{}-{}", host, pid, tid).
to_filename(id) == <<id[1], ".", id[2], "-", id[3]>>

----------------------------------------------------------------------------
(* Roster: the in-memory enum and its JSON form on disk *)

\* enum Roster { Empty, Shared(Vec<ProcessId>), Exclusive(Vec<ProcessId>) }
Empty == [kind |-> "Empty", holders |-> <<>>]
Shared(xs) == [kind |-> "Shared", holders |-> xs]
Exclusive(xs) == [kind |-> "Exclusive", holders |-> xs]

\* The roster file: absent, or present with its bytes.  <<>> is a file that
\* has been created or truncated and not written yet.
NoFile == [exists |-> FALSE, data |-> <<>>]
FileOf(data) == [exists |-> TRUE, data |-> data]
Truncated == FileOf(<<>>)

\* serde_json::to_writer of a Roster: {"shared": [...]} or {"exclusive": [...]};
\* the holders are written as triples.
ToJson(r) ==
    IF r.kind = "Shared" THEN <<"shared", r.holders>>
    ELSE IF r.kind = "Exclusive" THEN <<"exclusive", r.holders>>
    ELSE <<"Empty">>

\* serde_json::from_reader: the parse of the bytes of a roster file.
FromJson(data) ==
    IF Len(data) = 2 /\ data[1] = "shared"
        THEN [ok |-> TRUE, roster |-> Shared(data[2])]
    ELSE IF Len(data) = 2 /\ data[1] = "exclusive"
        THEN [ok |-> TRUE, roster |-> Exclusive(data[2])]
    ELSE IF Len(data) = 1 /\ data[1] = "Empty"
        THEN [ok |-> TRUE, roster |-> Empty]
    ELSE [ok |-> FALSE, roster |-> Empty]

\* A load that takes a file it cannot parse for the Empty roster.
RosterLoadLenient(file) ==
    IF file.exists /\ FromJson(file.data).ok
        THEN [res |-> "Ok", roster |-> FromJson(file.data).roster]
        ELSE [res |-> "Ok", roster |-> Empty]

\* Roster::load: a missing file is the Empty roster, a file that does not
\* parse is a JsonError.
RosterLoad(file) ==
    IF ~file.exists THEN [res |-> "Ok", roster |-> Empty]
    ELSE IF FromJson(file.data).ok
        THEN [res |-> "Ok", roster |-> FromJson(file.data).roster]
    ELSE [res |-> "JsonError", roster |-> Empty]

\* A make_exclusive that adds the caller to the holders it finds.
MakeExclusiveAppend(r, id) ==
    [res |-> "Ok", roster |-> Exclusive(Append(r.holders, id))]

\* A make_exclusive that overwrites whatever roster it is given.
MakeExclusiveUnchecked(r, id) == [res |-> "Ok", roster |-> Exclusive(<<id>>)]

\* Roster::make_exclusive, up to its call of update: only the Empty roster
\* can be made exclusive.
MakeExclusive(r, id) ==
    IF r.kind = "Empty"
        THEN [res |-> "Ok", roster |-> Exclusive(<<id>>)]
        ELSE [res |-> "LockError", roster |-> r]

Range(s) == {s[i] : i \in DOMAIN s}


\* An update that creates the file and writes nothing into it.
UpdateWriteNothing(r, file) == Truncated

\* Roster::update: the Empty roster deletes the file (a missing file is fine),
\* any other roster is written in two filesystem steps, File::create and then
\* serde_json::to_writer; these are the two results on the file.
UpdateCreate(file) == Truncated
UpdateWrite(r, file) == FileOf(ToJson(r))
UpdateEmpty(file) == NoFile

\* Lock::release, its result and its effect on the roster file: the in-memory
\* roster decides.  An Exclusive roster deletes the roster file through
\* Roster::Empty.update; a Shared roster is unimplemented!() and panics.
ReleaseOutcome(r, file) ==
    IF r.kind = "Empty" THEN [res |-> "Ok", file |-> file]
    ELSE IF r.kind = "Exclusive" THEN [res |-> "Ok", file |-> UpdateEmpty(file)]
    ELSE [res |-> "panic", file |-> file]

\* A process that has created the roster file and not yet written it holds an
\* open file; deleting the file leaves that process writing to an unlinked
\* file.
Unlinked(old, new) ==
    IF old.exists /\ ~new.exists
        THEN orphan \cup {q \in Procs : pc[q] = "le_write"}
        ELSE orphan

set(f, p, v) == [f EXCEPT ![p] = v]

----------------------------------------------------------------------------
(* Initial state: every process has constructed its Lock (Lock::new) on an   *)
(* empty lock directory.  A process constructs one Lock, uses it and drops   *)
(* it.                                                                       *)

Init ==
    /\ pc = [p \in Procs |-> "idle"]
    /\ op = [p \in Procs |-> "new"]
    /\ ret = [p \in Procs |-> "Ok"]
    /\ err = [p \in Procs |-> "none"]
    /\ exclusive = [p \in Procs |-> FALSE]
    /\ roster = [p \in Procs |-> Empty]
    /\ held = [p \in Procs |-> "Unlocked"]
    /\ guardDir = FALSE
    /\ markers = {}
    /\ rosterFile = NoFile
    /\ orphan = {}
    /\ faults = 0

----------------------------------------------------------------------------
(* Lock::lock_exclusive *)

\* A lock_exclusive without the check of self.exclusive.
CallLockExclusiveUnchecked(p) ==
    /\ pc[p] = "idle"
    /\ op' = set(op, p, "lock_exclusive")
    /\ pc' = set(pc, p, "le_mkdir")
    /\ ret' = set(ret, p, "pending")
    /\ UNCHANGED <<err, exclusive, roster, held, fs, orphan, faults>>

\* The call and its first check: a Lock whose exclusive field is Some panics.
CallLockExclusive(p) ==
    /\ pc[p] = "idle"
    /\ op' = set(op, p, "lock_exclusive")
    /\ IF exclusive[p]
          THEN pc' = set(pc, p, "panicked") /\ ret' = set(ret, p, "panic")
          ELSE pc' = set(pc, p, "le_mkdir") /\ ret' = set(ret, p, "pending")
    /\ UNCHANGED <<err, exclusive, roster, held, fs, orphan, faults>>

\* A create_dir that accepts an existing directory, as fs::create_dir_all does.
CreateDirAll(p) ==
    /\ pc[p] = "le_mkdir"
    /\ pc' = set(pc, p, "le_marker")
    /\ guardDir' = TRUE
    /\ UNCHANGED <<op, ret, err, exclusive, roster, held, markers, rosterFile,
                   orphan, faults>>

\* A lock_exclusive whose ExclusiveLock value exists before create_dir is
\* tried, so that the AlreadyExists return drops it and removes the marker and
\* the directory.
CreateDirDropsOnBusy(p) ==
    /\ pc[p] = "le_mkdir"
    /\ IF guardDir
          THEN /\ pc' = set(pc, p, "idle")
               /\ ret' = set(ret, p, "LockError")
               /\ markers' = markers \ {to_filename(get_process_id(p))}
               /\ guardDir' = (markers' # {})
          ELSE /\ pc' = set(pc, p, "le_marker")
               /\ guardDir' = TRUE
               /\ UNCHANGED <<ret, markers>>
    /\ UNCHANGED <<op, err, exclusive, roster, held, rosterFile, orphan, faults>>

\* ExclusiveLock::new, fs::create_dir: AlreadyExists is LockError and the call
\* returns at once; otherwise the directory now exists.
CreateDir(p) ==
    /\ pc[p] = "le_mkdir"
    /\ IF guardDir
          THEN /\ pc' = set(pc, p, "idle")
               /\ ret' = set(ret, p, "LockError")
               /\ UNCHANGED guardDir
          ELSE /\ pc' = set(pc, p, "le_marker")
               /\ guardDir' = TRUE
               /\ UNCHANGED ret
    /\ UNCHANGED <<op, err, exclusive, roster, held, markers, rosterFile,
                   orphan, faults>>

\* ExclusiveLock::new, the marker file, opened with create_new: a marker of
\* that name already there is an error and drops the ExclusiveLock.
CreateMarker(p) ==
    /\ pc[p] = "le_marker"
    /\ IF to_filename(get_process_id(p)) \in markers
          THEN /\ pc' = set(pc, p, "el_file")
               /\ err' = set(err, p, "IoError")
               /\ UNCHANGED markers
          ELSE /\ pc' = set(pc, p, "le_load")
               /\ markers' = markers \cup {to_filename(get_process_id(p))}
               /\ UNCHANGED err
    /\ UNCHANGED <<op, ret, exclusive, roster, held, guardDir, rosterFile,
                   orphan, faults>>

\* self.roster = Roster::load(&rname)?; and the match of make_exclusive.  A
\* failed load leaves self.roster alone; a loaded roster is stored in
\* self.roster whether or not it can be made exclusive.
LoadRoster(p) ==
    /\ pc[p] = "le_load"
    /\ LET l == RosterLoad(rosterFile)
           m == MakeExclusive(l.roster, get_process_id(p))
       IN  IF l.res # "Ok"
              THEN /\ err' = set(err, p, l.res)
                   /\ pc' = set(pc, p, "el_file")
                   /\ UNCHANGED roster
              ELSE /\ roster' = set(roster, p, m.roster)
                   /\ IF m.res = "Ok"
                         THEN pc' = set(pc, p, "le_create") /\ UNCHANGED err
                         ELSE /\ pc' = set(pc, p, "el_file")
                              /\ err' = set(err, p, m.res)
    /\ UNCHANGED <<op, ret, exclusive, held, fs, orphan, faults>>

\* Roster::update, File::create: the roster file exists and is empty.
FileCreate(p) ==
    /\ pc[p] = "le_create"
    /\ rosterFile' = UpdateCreate(rosterFile)
    /\ orphan' = orphan \ {p}
    /\ pc' = set(pc, p, "le_write")
    /\ UNCHANGED <<op, ret, err, exclusive, roster, held, guardDir, markers,
                   faults>>

\* Roster::update, serde_json::to_writer, then self.exclusive = Some(el) and
\* Ok(()).  The bytes go to the file this process created, which is the
\* roster file unless it was unlinked in between.
ToWriter(p) ==
    /\ pc[p] = "le_write"
    /\ rosterFile' = IF p \in orphan THEN rosterFile
                     ELSE UpdateWrite(roster[p], rosterFile)
    /\ orphan' = orphan \ {p}
    /\ exclusive' = set(exclusive, p, TRUE)
    /\ held' = set(held, p, "Exclusive")
    /\ ret' = set(ret, p, "Ok")
    /\ pc' = set(pc, p, "idle")
    /\ UNCHANGED <<op, err, roster, guardDir, markers, faults>>

----------------------------------------------------------------------------
(* Drop for ExclusiveLock: remove_file of the marker, then remove_dir, both  *)
(* results ignored.  It runs for the local `el` of a failing lock_exclusive  *)
(* (el_file, el_dir) and for the exclusive field of a Lock being dropped     *)
(* (drop_file, drop_dir).                                                    *)

\* An ExclusiveLock that is forgotten instead of dropped on the error path of
\* lock_exclusive: the directory it created stays.
DropExclusiveLockDirForgotten(p) ==
    /\ pc[p] \in {"el_dir", "drop_dir"}
    /\ guardDir' = IF pc[p] = "drop_dir" /\ markers = {} THEN FALSE ELSE guardDir
    /\ IF pc[p] = "el_dir"
          THEN /\ pc' = set(pc, p, "idle")
               /\ ret' = set(ret, p, err[p])
               /\ err' = set(err, p, "none")
               /\ UNCHANGED <<exclusive, held>>
          ELSE /\ pc' = set(pc, p, "gone")
               /\ exclusive' = set(exclusive, p, FALSE)
               /\ held' = set(held, p, "Unlocked")
               /\ UNCHANGED <<ret, err>>
    /\ UNCHANGED <<op, roster, markers, rosterFile, orphan, faults>>

\* A drop of the ExclusiveLock that goes to remove_dir without removing the
\* marker file first.
DropExclusiveLockFileKept(p) ==
    /\ pc[p] \in {"el_file", "drop_file"}
    /\ pc' = set(pc, p, IF pc[p] = "el_file" THEN "el_dir" ELSE "drop_dir")
    /\ UNCHANGED <<op, ret, err, exclusive, roster, held, fs, orphan, faults>>

\* remove_file of the marker; its result is ignored.
DropExclusiveLockFile(p) ==
    /\ pc[p] \in {"el_file", "drop_file"}
    /\ markers' = markers \ {to_filename(get_process_id(p))}
    /\ pc' = set(pc, p, IF pc[p] = "el_file" THEN "el_dir" ELSE "drop_dir")
    /\ UNCHANGED <<op, ret, err, exclusive, roster, held, guardDir,
                   rosterFile, orphan, faults>>

\* remove_dir removes an empty directory only.  After it, a failing
\* lock_exclusive returns its error, and a dropped Lock is gone.
DropExclusiveLockDir(p) ==
    /\ pc[p] \in {"el_dir", "drop_dir"}
    /\ guardDir' = IF markers = {} THEN FALSE ELSE guardDir
    /\ IF pc[p] = "el_dir"
          THEN /\ pc' = set(pc, p, "idle")
               /\ ret' = set(ret, p, err[p])
               /\ err' = set(err, p, "none")
               /\ UNCHANGED <<exclusive, held>>
          ELSE /\ pc' = set(pc, p, "gone")
               /\ exclusive' = set(exclusive, p, FALSE)
               /\ held' = set(held, p, "Unlocked")
               /\ UNCHANGED <<ret, err>>
    /\ UNCHANGED <<op, roster, markers, rosterFile, orphan, faults>>

----------------------------------------------------------------------------
(* Lock::release *)

CallRelease(p) ==
    /\ pc[p] = "idle"
    /\ op' = set(op, p, "release")
    /\ ret' = set(ret, p, "pending")
    /\ pc' = set(pc, p, "rel")
    /\ UNCHANGED <<err, exclusive, roster, held, fs, orphan, faults>>

\* mem::replace(&mut self.roster, Roster::Empty) and the match on the old
\* roster, with outcome o of the match.  The exclusive field is not touched.
ReleaseWith(p, o) ==
    /\ roster' = set(roster, p, Empty)
    /\ rosterFile' = o.file
    /\ orphan' = Unlinked(rosterFile, o.file)
    /\ ret' = set(ret, p, o.res)
    /\ IF o.res = "panic"
          THEN pc' = set(pc, p, "panicked") /\ UNCHANGED held
          ELSE pc' = set(pc, p, "idle") /\ held' = set(held, p, "Unlocked")
    /\ UNCHANGED <<op, err, exclusive, guardDir, markers>>

Release(p) ==
    /\ pc[p] = "rel"
    /\ ReleaseWith(p, ReleaseOutcome(roster[p], rosterFile))
    /\ UNCHANGED faults

----------------------------------------------------------------------------
(* Drop for Lock: let _ = self.release(); then the fields are dropped, the   *)
(* exclusive field among them.  A Lock is dropped by its owner, or by the    *)
(* unwinding of a panic.  A panic of release inside the drop still drops the *)
(* fields, unless the process is already unwinding: a second panic aborts    *)
(* the process and nothing more is cleaned up.                               *)

DropLockWith(p, o) ==
    /\ roster' = set(roster, p, Empty)
    /\ rosterFile' = o.file
    /\ orphan' = Unlinked(rosterFile, o.file)
    /\ ret' = set(ret, p, IF o.res = "panic" THEN "panic" ELSE ret[p])
    /\ err' = set(err, p, IF o.res \in {"Ok", "panic"} THEN "none" ELSE o.res)
    /\ IF o.res = "panic" /\ pc[p] = "panicked"
          THEN pc' = set(pc, p, "aborted") /\ UNCHANGED <<exclusive, held>>
          ELSE IF exclusive[p]
          THEN pc' = set(pc, p, "drop_file") /\ UNCHANGED <<exclusive, held>>
          ELSE /\ pc' = set(pc, p, "gone")
               /\ held' = set(held, p, "Unlocked")
               /\ UNCHANGED exclusive
    /\ UNCHANGED <<op, guardDir, markers>>

\* A Lock without its Drop implementation: only the fields are dropped.
DropLockWithoutRelease(p) ==
    /\ pc[p] \in {"idle", "panicked"}
    /\ DropLockWith(p, [res |-> "Ok", file |-> rosterFile])
    /\ UNCHANGED faults

DropLock(p) ==
    /\ pc[p] \in {"idle", "panicked"}
    /\ DropLockWith(p, ReleaseOutcome(roster[p], rosterFile))
    /\ UNCHANGED faults

----------------------------------------------------------------------------
(* Lock::lock_shared.  main.rs calls it; lock.rs does not define it.  It is  *)
(* modelled from the design: callable from Unlocked only, and under the      *)
(* mutation guard it loads the roster, adds the caller with add_shared and   *)
(* persists the result as one logical write.  Holding the mutation guard for *)
(* the whole read-modify-write makes the operation one step with respect to  *)
(* every other holder of that guard; no code of lock.rs takes that guard.    *)

\* Roster::add_shared: from Empty or Shared(xs); Exclusive is LockBusyError.
\* An identity already in xs is kept once.
AddShared(r, id) ==
    IF r.kind = "Exclusive" THEN [res |-> "LockError", roster |-> r]
    ELSE IF id \in Range(r.holders) THEN [res |-> "Ok", roster |-> Shared(r.holders)]
    ELSE [res |-> "Ok", roster |-> Shared(Append(r.holders, id))]

CallLockShared(p) ==
    /\ pc[p] = "idle"
    /\ op' = set(op, p, "lock_shared")
    /\ IF held[p] # "Unlocked"
          THEN pc' = set(pc, p, "panicked") /\ ret' = set(ret, p, "panic")
          ELSE pc' = set(pc, p, "ls") /\ ret' = set(ret, p, "pending")
    /\ UNCHANGED <<err, exclusive, roster, held, fs, orphan, faults>>

LockShared(p) ==
    /\ pc[p] = "ls"
    /\ pc' = set(pc, p, "idle")
    /\ LET l == RosterLoad(rosterFile)
           a == AddShared(l.roster, get_process_id(p))
       IN  IF l.res = "Ok" /\ a.res = "Ok"
              THEN /\ rosterFile' = UpdateWrite(a.roster, rosterFile)
                   /\ roster' = set(roster, p, a.roster)
                   /\ held' = set(held, p, "Shared")
                   /\ ret' = set(ret, p, "Ok")
              ELSE /\ ret' = set(ret, p, IF l.res = "Ok" THEN a.res ELSE l.res)
                   /\ UNCHANGED <<rosterFile, roster, held>>
    /\ UNCHANGED <<op, err, exclusive, guardDir, markers, orphan, faults>>

----------------------------------------------------------------------------
(* I/O errors.  Each is one more outcome of a filesystem call of the code,   *)
(* taken by the `?` or the match arm that handles it.                        *)

Fault ==
    /\ faults < MaxFaults
    /\ faults' = faults + 1

\* fs::create_dir fails with an error other than AlreadyExists.
CreateDirError(p) ==
    /\ pc[p] = "le_mkdir"
    /\ ~guardDir
    /\ Fault
    /\ pc' = set(pc, p, "idle")
    /\ ret' = set(ret, p, "IoError")
    /\ UNCHANGED <<op, err, exclusive, roster, held, fs, orphan>>

\* A marker failure that returns before the ExclusiveLock value exists, so
\* that nothing removes the directory just created.
CreateMarkerErrorKeepsDir(p) ==
    /\ pc[p] = "le_marker"
    /\ Fault
    /\ pc' = set(pc, p, "idle")
    /\ ret' = set(ret, p, "IoError")
    /\ UNCHANGED <<op, err, exclusive, roster, held, fs, orphan>>

\* The marker file cannot be created: the ExclusiveLock is dropped.
CreateMarkerError(p) ==
    /\ pc[p] = "le_marker"
    /\ Fault
    /\ pc' = set(pc, p, "el_file")
    /\ err' = set(err, p, "IoError")
    /\ UNCHANGED <<op, ret, exclusive, roster, held, fs, orphan>>

\* File::open of the roster fails with an error other than NotFound.
LoadRosterError(p) ==
    /\ pc[p] = "le_load"
    /\ rosterFile.exists
    /\ Fault
    /\ pc' = set(pc, p, "el_file")
    /\ err' = set(err, p, "IoError")
    /\ UNCHANGED <<op, ret, exclusive, roster, held, fs, orphan>>

\* File::create of the roster fails; self.roster is already Exclusive([id]).
FileCreateError(p) ==
    /\ pc[p] = "le_create"
    /\ Fault
    /\ pc' = set(pc, p, "el_file")
    /\ err' = set(err, p, "IoError")
    /\ UNCHANGED <<op, ret, exclusive, roster, held, fs, orphan>>

\* serde_json::to_writer fails: the created file stays empty.
ToWriterError(p) ==
    /\ pc[p] = "le_write"
    /\ Fault
    /\ pc' = set(pc, p, "el_file")
    /\ err' = set(err, p, "JsonError")
    /\ orphan' = orphan \ {p}
    /\ UNCHANGED <<op, ret, exclusive, roster, held, fs>>

\* fs::remove_file of the roster fails with an error other than NotFound:
\* release returns it.
ReleaseError(p) ==
    /\ pc[p] = "rel"
    /\ roster[p].kind = "Exclusive"
    /\ Fault
    /\ ReleaseWith(p, [res |-> "IoError", file |-> rosterFile])

\* The same failure inside Drop for Lock, where the result is discarded.
DropLockError(p) ==
    /\ pc[p] \in {"idle", "panicked"}
    /\ roster[p].kind = "Exclusive"
    /\ Fault
    /\ DropLockWith(p, [res |-> "IoError", file |-> rosterFile])

----------------------------------------------------------------------------

Step(p) ==
    \/ CallLockExclusive(p)
    \/ CreateDir(p)
    \/ CreateMarker(p)
    \/ LoadRoster(p)
    \/ FileCreate(p)
    \/ ToWriter(p)
    \/ DropExclusiveLockFile(p)
    \/ DropExclusiveLockDir(p)
    \/ CallRelease(p)
    \/ Release(p)
    \/ DropLock(p)
    \/ CallLockShared(p)
    \/ LockShared(p)

StepError(p) ==
    \/ CreateDirError(p)
    \/ CreateMarkerError(p)
    \/ LoadRosterError(p)
    \/ FileCreateError(p)
    \/ ToWriterError(p)
    \/ ReleaseError(p)
    \/ DropLockError(p)

Next == \E p \in Procs : Step(p)

NextIO == \E p \in Procs : Step(p) \/ StepError(p)

\* The lock without I/O errors.
Spec == Init /\ [][Next]_vars

\* The lock on a filesystem that may fail up to MaxFaults calls.
SpecIO == Init /\ [][NextIO]_vars

\* The steps of the code of lock.rs: lock_exclusive, release and the drop of
\* the Lock.
StepExclusive(p) ==
    \/ CallLockExclusive(p)
    \/ CreateDir(p)
    \/ CreateMarker(p)
    \/ LoadRoster(p)
    \/ FileCreate(p)
    \/ ToWriter(p)
    \/ DropExclusiveLockFile(p)
    \/ DropExclusiveLockDir(p)
    \/ CallRelease(p)
    \/ Release(p)
    \/ DropLock(p)

NextExclusive == \E p \in Procs : StepExclusive(p)

\* The lock used through lock_exclusive, release and drop only, without I/O
\* errors.
SpecExclusive == Init /\ [][NextExclusive]_vars

Results == {"Ok", "LockError", "IoError", "JsonError", "panic", "pending"}

TypeOK ==
    /\ pc \in [Procs -> {"idle", "le_mkdir", "le_marker", "le_load", "le_create",
                         "le_write", "el_file", "el_dir", "rel", "ls",
                         "drop_file", "drop_dir", "panicked", "aborted", "gone"}]
    /\ op \in [Procs -> {"new", "lock_exclusive", "lock_shared", "release"}]
    /\ ret \in [Procs -> Results]
    /\ err \in [Procs -> {"none", "LockError", "IoError", "JsonError"}]
    /\ exclusive \in [Procs -> BOOLEAN]
    /\ \A p \in Procs : roster[p].kind \in {"Empty", "Shared", "Exclusive"}
    /\ held \in [Procs -> {"Unlocked", "Shared", "Exclusive"}]
    /\ guardDir \in BOOLEAN
    /\ markers \subseteq {to_filename(get_process_id(p)) : p \in Procs}
    /\ rosterFile.exists \in BOOLEAN
    /\ orphan \subseteq Procs
    /\ faults \in 0..MaxFaults

----------------------------------------------------------------------------
(* What a step shows of a call *)

\* lock_exclusive of p returns in this step (with ret'[p]).
LockExclusiveReturns(p) ==
    op[p] = "lock_exclusive" /\ ret[p] = "pending" /\ ret'[p] # "pending"

\* release of p returns, or panics, in this step.
ReleaseReturns(p) ==
    op[p] = "release" /\ ret[p] = "pending" /\ ret'[p] # "pending"

\* The marker file of p.
Marker(p) == to_filename(get_process_id(p))

\* The roster file that records exactly Exclusive([p]).
ExclusiveFile(p) == [exists |-> TRUE, data |-> <<"exclusive", << <<Host, p, 0>> >> >>]

\* The roster file parses and lists id among its holders.
Records(file, id) ==
    /\ file.exists
    /\ FromJson(file.data).ok
    /\ id \in Range(FromJson(file.data).roster.holders)

----------------------------------------------------------------------------
(* C1: mutual exclusion.  No two processes hold Exclusive at the same time,  *)
(* and while one process holds Exclusive every lock_exclusive() of another   *)
(* process that returns, returns LockError.                                  *)
C1_MutualExclusion ==
    [][\A p, q \in Procs : p # q =>
          /\ ~(held'[p] = "Exclusive" /\ held'[q] = "Exclusive")
          /\ (held[q] = "Exclusive" /\ LockExclusiveReturns(p)
                => ret'[p] = "LockError")]_vars

\* One process holds Exclusive and the lock_exclusive() of another has
\* returned LockError.
C1_Witness ==
    \E p, q \in Procs :
        /\ p # q
        /\ held[q] = "Exclusive"
        /\ op[p] = "lock_exclusive"
        /\ ret[p] = "LockError"

(* C2: release makes the lock available again.  When release() of a process  *)
(* that holds Exclusive returns, the guard directory and the roster file are *)
(* gone; and while a process has released and still owns its Lock, the       *)
(* lock_exclusive() of another process that returns, returns Ok.             *)
C2_ReleaseFreesLock ==
    [][\A p \in Procs :
          /\ (held[p] = "Exclusive" /\ ReleaseReturns(p)
                => ~guardDir' /\ ~rosterFile'.exists)
          /\ \A q \in Procs \ {p} :
                (/\ op[p] = "release" /\ ret[p] = "Ok" /\ pc[p] = "idle"
                 /\ held[q] = "Unlocked" /\ LockExclusiveReturns(q))
                => ret'[q] = "Ok"]_vars

C4_BusyChangesNothing ==
    [][\A p \in Procs :
          LockExclusiveReturns(p) /\ pc[p] = "le_mkdir" /\ guardDir =>
              /\ ret'[p] = "LockError"
              /\ guardDir' = guardDir
              /\ markers' = markers
              /\ rosterFile' = rosterFile]_vars

\* q holds Exclusive with its directory, marker and roster in place after the
\* lock_exclusive() of p has failed as busy.
C4_Witness ==
    \E p, q \in Procs :
        /\ p # q
        /\ held[q] = "Exclusive"
        /\ op[p] = "lock_exclusive" /\ ret[p] = "LockError" /\ pc[p] = "idle"
        /\ guardDir
        /\ markers = {Marker(q)}
        /\ rosterFile = ExclusiveFile(q)

(* C5: rollback of a partial exclusive acquisition.  When lock_exclusive()   *)
(* of p has created the guard directory and then returns an error (the       *)
(* marker, the load of the roster, make_exclusive or the write of the roster *)
(* failed), the guard directory and the marker of p are gone when it         *)
(* returns.                                                                  *)
C5_Rollback ==
    [][\A p \in Procs :
          LockExclusiveReturns(p) /\ pc[p] # "le_mkdir" /\ ret'[p] # "Ok" =>
              /\ ~guardDir'
              /\ Marker(p) \notin markers'
              /\ ~exclusive'[p]
              /\ ret'[p] \in {"LockError", "IoError", "JsonError"}]_vars

\* Two failed acquisitions, each rolled back: lock_exclusive() of p created
\* the guard directory and could not write the roster, lock_exclusive() of q
\* created it and found a roster that is not Empty; no guard directory and no
\* marker is left.
C5_Witness ==
    \E p, q \in Procs :
        /\ op[p] = "lock_exclusive" /\ pc[p] = "idle"
        /\ ret[p] \in {"IoError", "JsonError"}
        /\ roster[p] = Exclusive(<<get_process_id(p)>>)
        /\ op[q] = "lock_exclusive" /\ pc[q] = "idle"
        /\ ret[q] = "LockError"
        /\ roster[q].kind = "Shared"
        /\ ~exclusive[p] /\ ~exclusive[q]
        /\ ~guardDir
        /\ markers = {}

(* C6: idempotent release.  When release() returns on a Lock that is         *)
(* Unlocked, it returns Ok, the guard directory, the marker files and the    *)
(* roster file are as they were, and the Lock is still Unlocked with its     *)
(* exclusive field as it was.                                                *)
C6_ReleaseIdempotent ==
    [][\A p \in Procs :
          held[p] = "Unlocked" /\ ReleaseReturns(p) =>
              /\ ret'[p] = "Ok"
              /\ guardDir' = guardDir
              /\ markers' = markers
              /\ rosterFile' = rosterFile
              /\ held'[p] = "Unlocked"
              /\ exclusive'[p] = exclusive[p]]_vars

\* The drop of the Lock of p ends in this step.
DropEnds(p) == pc[p] \notin {"gone", "aborted"} /\ pc'[p] \in {"gone", "aborted"}

C8_DoubleAcquirePanics ==
    [][\A p \in Procs :
          (/\ held[p] = "Exclusive"
           /\ pc[p] = "idle"
           /\ pc'[p] \in {"le_mkdir", "panicked"}
           /\ op'[p] = "lock_exclusive") =>
              /\ pc'[p] = "panicked"
              /\ ret'[p] = "panic"
              /\ guardDir' = guardDir
              /\ markers' = markers
              /\ rosterFile' = rosterFile
              /\ roster'[p] = roster[p]
              /\ exclusive'[p] = exclusive[p]]_vars

\* p has panicked in lock_exclusive() while holding Exclusive, with its guard
\* directory, marker and roster still in place.
C8_Witness ==
    \E p \in Procs :
        /\ pc[p] = "panicked"
        /\ op[p] = "lock_exclusive" /\ ret[p] = "panic"
        /\ held[p] = "Exclusive"
        /\ guardDir
        /\ Marker(p) \in markers
        /\ rosterFile = ExclusiveFile(p)

\* The roster file records at least one shared holder.
SharedRecorded ==
    /\ rosterFile.exists
    /\ FromJson(rosterFile.data).ok
    /\ FromJson(rosterFile.data).roster.kind = "Shared"
    /\ Len(FromJson(rosterFile.data).roster.holders) >= 1

RemoveHolder(file, id) ==
    LET xs == SelectSeq(FromJson(file.data).roster.holders, LAMBDA x : x # id)
    IN  IF xs = <<>> THEN NoFile ELSE [exists |-> TRUE, data |-> <<"shared", xs>>]

(* C10: release of a shared lock removes only the releasing holder.  When    *)
(* release() of a process that holds Shared returns, it returns Ok, the Lock *)
(* is Unlocked, and the roster file is the one before without that process:  *)
(* Shared([P1, P2]) becomes Shared([P2]), and Shared([P2]) becomes no file.  *)
C10_SharedRelease ==
    [][\A p \in Procs :
          held[p] = "Shared" /\ ReleaseReturns(p) =>
              /\ ret'[p] = "Ok"
              /\ held'[p] = "Unlocked"
              /\ rosterFile' = RemoveHolder(rosterFile, get_process_id(p))]_vars

\* p makes a step.  Every action moves the process that takes it.
Acts(p) == pc'[p] # pc[p]

\* p calls lock_exclusive() in this step.
CallsLockExclusive(p) ==
    pc[p] = "idle" /\ pc'[p] \in {"le_mkdir", "panicked"} /\ op'[p] = "lock_exclusive"

(* C11: a Lock is reusable.  After release() has returned Ok and left the    *)
(* Lock Unlocked, a lock_exclusive() on the same Lock is a legal call: it    *)
(* does not panic as a double acquisition, it starts the acquisition (which  *)
(* then succeeds or fails as C1 and C12 say).                                *)
C11_Reusable ==
    [][\A p \in Procs :
          (/\ op[p] = "release" /\ ret[p] = "Ok" /\ held[p] = "Unlocked"
           /\ CallsLockExclusive(p))
              => pc'[p] = "le_mkdir" /\ ret'[p] = "pending"]_vars

\* Nothing but lock_exclusive() has been called on a Lock that has taken
\* anything: every process is idle or inside lock_exclusive(), none has
\* panicked or dropped its Lock, and none holds Shared.
OnlyAcquisitions ==
    \A q \in Procs :
        /\ op[q] \in {"new", "lock_exclusive"}
        /\ pc[q] \in {"idle", "le_mkdir", "le_marker", "le_load", "le_create",
                      "le_write", "el_file", "el_dir"}
        /\ ret[q] # "panic"
        /\ held[q] # "Shared"

\* Every process has called lock_exclusive() and the call has returned.
AllReturned == \A q \in Procs : op[q] = "lock_exclusive" /\ pc[q] = "idle"

(* C12: contention is decided by the creation of the directory.  While the   *)
(* processes only acquire, on a directory that started without guard and     *)
(* roster and with no I/O error: a lock_exclusive() returns Ok or LockError; *)
(* it returns LockError at create_dir and nowhere else; it returns Ok only   *)
(* if no other call has; and once every process has called and returned,     *)
(* exactly one has Ok and all the others have LockError.                     *)
C12_ContentionByMkdir ==
    [][/\ OnlyAcquisitions =>
             \A p \in Procs : LockExclusiveReturns(p) =>
                 /\ ret'[p] \in {"Ok", "LockError"}
                 /\ (ret'[p] = "LockError" <=> pc[p] = "le_mkdir")
                 /\ (ret'[p] = "Ok" =>
                        \A q \in Procs \ {p} :
                            ~(op[q] = "lock_exclusive" /\ ret[q] = "Ok"))
       /\ OnlyAcquisitions' /\ AllReturned' =>
             /\ Cardinality({p \in Procs : ret'[p] = "Ok"}) = 1
             /\ \A p \in Procs : ret'[p] \in {"Ok", "LockError"}]_vars

\* Every process has called lock_exclusive() once the others were inside
\* theirs or done; one has Ok and holds Exclusive, the others have LockError.
C12_Witness ==
    /\ OnlyAcquisitions
    /\ AllReturned
    /\ \E p \in Procs :
          /\ ret[p] = "Ok" /\ held[p] = "Exclusive"
          /\ rosterFile = ExclusiveFile(p)
          /\ \A q \in Procs \ {p} : ret[q] = "LockError" /\ held[q] = "Unlocked"

\* p holds a guard: the ExclusiveLock it created is alive, as the local `el`
\* of its lock_exclusive() or as the exclusive field of its Lock; or it is
\* inside lock_shared(), which runs under the mutation guard.
HoldsGuard(p) ==
    \/ pc[p] \in {"le_marker", "le_load", "le_create", "le_write", "el_file"}
    \/ exclusive[p]
    \/ pc[p] = "ls"

\* The step of p is a load, a write or a deletion of the roster file:
\* Roster::load, File::create, to_writer, or the remove_file of a release()
\* (called or run by the drop of the Lock) whose in-memory roster is Exclusive.
TouchesRoster(p) ==
    /\ Acts(p)
    /\ IF pc[p] \in {"le_load", "le_create", "le_write", "ls"} THEN TRUE
       ELSE IF pc[p] = "rel" THEN roster[p].kind = "Exclusive"
       ELSE /\ pc[p] \in {"idle", "panicked"}
            /\ pc'[p] \in {"drop_file", "gone", "aborted"}
            /\ roster[p].kind = "Exclusive"

\* p is between the load of the roster and the end of its write.
InReadModifyWrite(p) == pc[p] \in {"le_create", "le_write"}

(* C13: the read-modify-write of the roster is serialized.  Every step of a  *)
(* process that loads, writes or deletes the roster file is taken while that *)
(* process holds a guard, and no two processes are between their load and    *)
(* their write of the roster at the same time.                               *)
C13_RosterSerialized ==
    [][/\ \A p \in Procs : TouchesRoster(p) => HoldsGuard(p)
       /\ \A p, q \in Procs :
             p # q => ~(InReadModifyWrite(p) /\ InReadModifyWrite(q))]_vars

(* C14: no orphaned guard directory on marker failure.  When the marker     *)
(* file cannot be created after create_dir succeeded, lock_exclusive() does  *)
(* not return yet: the ExclusiveLock is dropped first, which removes the     *)
(* marker name and then the directory, and only then the error is returned,  *)
(* with no guard directory left; and a create_dir that finds no guard        *)
(* directory and meets no I/O error goes on to acquire.                      *)
C14_NoOrphanOnMarkerFailure ==
    [][\A p \in Procs :
          /\ (pc[p] = "le_marker" /\ Acts(p) /\ pc'[p] # "le_load") =>
                /\ pc'[p] = "el_file"
                /\ ret'[p] = "pending"
                /\ err'[p] = "IoError"
          /\ (pc[p] = "el_file" /\ Acts(p)) =>
                /\ pc'[p] = "el_dir"
                /\ ret'[p] = "pending"
                /\ Marker(p) \notin markers'
          /\ (pc[p] = "el_dir" /\ Acts(p)) =>
                /\ pc'[p] = "idle"
                /\ ret'[p] = err[p]
                /\ ~guardDir'
                /\ ~exclusive'[p]
          /\ (pc[p] = "le_mkdir" /\ Acts(p) /\ ~guardDir /\ faults' = faults) =>
                pc'[p] = "le_marker" /\ guardDir']_vars

\* lock_exclusive() of p has returned an I/O error before it read the roster
\* and left no guard directory, and q has then acquired the lock.
C14_Witness ==
    \E p, q \in Procs :
        /\ p # q
        /\ op[p] = "lock_exclusive" /\ ret[p] = "IoError" /\ pc[p] = "idle"
        /\ roster[p] = Empty
        /\ ~exclusive[p]
        /\ faults > 0
        /\ held[q] = "Exclusive"
        /\ markers = {Marker(q)}
        /\ rosterFile = ExclusiveFile(q)

\* The roster file is there and is not a roster: it does not parse.
Corrupted(file) == file.exists /\ ~FromJson(file.data).ok

(* C15: a corrupted roster is never treated as Empty.  Roster::load of a     *)
(* roster file that exists gives the Empty roster in no reachable state.     *)
(* When lock_exclusive() loads a roster file that cannot be read or parsed,  *)
(* the load fails with JsonError or IoError, the call goes on to return that *)
(* error, nothing is granted, and the in-memory roster and the roster file   *)
(* are as they were; the rest of the failing call leaves the roster file     *)
(* alone too.                                                                *)
C15_CorruptedNotEmpty ==
    [][/\ rosterFile'.exists =>
             ~(RosterLoad(rosterFile').res = "Ok"
               /\ RosterLoad(rosterFile').roster = Empty)
       /\ \A p \in Procs :
             /\ (pc[p] = "le_load" /\ Acts(p) /\ Corrupted(rosterFile)) =>
                   /\ pc'[p] = "el_file"
                   /\ err'[p] \in {"JsonError", "IoError"}
                   /\ (faults' = faults => err'[p] = RosterLoad(rosterFile).res)
                   /\ roster'[p] = roster[p]
                   /\ rosterFile' = rosterFile
                   /\ held'[p] = held[p] /\ held'[p] # "Exclusive"
                   /\ ~exclusive'[p]
             /\ (pc[p] \in {"el_file", "el_dir"} /\ Acts(p)) =>
                   /\ rosterFile' = rosterFile
                   /\ held'[p] = held[p] /\ held'[p] # "Exclusive"
                   /\ ~exclusive'[p]
                   /\ (pc[p] = "el_dir" => ret'[p] = err[p])]_vars

\* lock_exclusive() of p has returned JsonError on a roster file that is
\* corrupted still; p holds nothing and the guard directory is gone.
C15_Witness ==
    \E p \in Procs :
        /\ op[p] = "lock_exclusive" /\ ret[p] = "JsonError" /\ pc[p] = "idle"
        /\ roster[p] = Empty
        /\ Corrupted(rosterFile)
        /\ held[p] = "Unlocked" /\ ~exclusive[p]
        /\ ~guardDir

\* The shape of a roster: an Exclusive roster has exactly one holder.
WellShaped(r) == r.kind = "Exclusive" => Len(r.holders) = 1

\* The shape of the roster file: never the Empty variant, and when it parses,
\* a well-shaped roster.
FileWellShaped(file) ==
    file.exists =>
        /\ file.data # ToJson(Empty)
        /\ (FromJson(file.data).ok => WellShaped(FromJson(file.data).roster))

(* C16: roster shape.  In every reachable state the roster file, when it     *)
(* records Exclusive, records exactly one identity, and so does every        *)
(* in-memory roster; the Empty variant is never in the file.  Persisting     *)
(* Empty (the release of an Exclusive in-memory roster) deletes the file and *)
(* returns Ok, also when the file was absent already, unless remove_file     *)
(* itself fails.                                                             *)
C16_RosterShape ==
    [][/\ FileWellShaped(rosterFile')
       /\ \A p \in Procs : WellShaped(roster'[p])
       /\ \A p \in Procs :
             (ReleaseReturns(p) /\ roster[p].kind = "Exclusive"
              /\ faults' = faults) =>
                 /\ ret'[p] = "Ok"
                 /\ ~rosterFile'.exists
                 /\ roster'[p] = Empty]_vars

\* p has acquired, which wrote Exclusive([p]), and its release() has then
\* persisted Empty: it returned Ok, and the roster file is gone.
C16_Witness ==
    \E p \in Procs :
        /\ op[p] = "release" /\ ret[p] = "Ok" /\ pc[p] = "idle"
        /\ exclusive[p]
        /\ Marker(p) \in markers
        /\ roster[p] = Empty
        /\ ~rosterFile.exists

\* The step of p is the Roster::load of its lock_exclusive(), and it reads
\* the file (the open did not fail).
LoadsRoster(p) == pc[p] = "le_load" /\ Acts(p) /\ faults' = faults

\* A roster write has started on the file and its content is not there:
\* the file is created or truncated and holds no roster.
HalfWritten(file) == file.exists /\ file.data = <<>>

(* C17: no reader sees a half-written roster.  A Roster::load never runs     *)
(* while another process is between File::create and the end of to_writer,   *)
(* and the file it reads is never a created, not yet written roster file.    *)
C17_NoHalfWrittenRead ==
    [][\A p \in Procs :
          LoadsRoster(p) =>
              /\ \A q \in Procs \ {p} : pc[q] # "le_write"
              /\ ~HalfWritten(rosterFile)]_vars

\* p is not a holder: its Lock is Unlocked and has no ExclusiveLock.
NonHolder(p) == held[p] = "Unlocked" /\ ~exclusive[p]

\* The Lock of p is dropped in this step (Drop for Lock runs release).
DropsLock(p) ==
    pc[p] \in {"idle", "panicked"} /\ pc'[p] \in {"drop_file", "gone", "aborted"}

(* C18: a non-holder never erases the record of a holder.  When the          *)
(* lock_exclusive() of a Lock has failed and the Lock is dropped, the roster *)
(* file is left as it is and the drop does not panic; and a release() that   *)
(* returns on a Lock that is not a holder returns Ok and leaves the roster   *)
(* file as it is.                                                            *)
C18_NonHolderKeepsRoster ==
    [][\A p \in Procs :
          /\ (/\ NonHolder(p)
              /\ op[p] = "lock_exclusive"
              /\ ret[p] \in {"LockError", "IoError", "JsonError"}
              /\ DropsLock(p)) =>
                 /\ rosterFile' = rosterFile
                 /\ pc'[p] = "gone"
                 /\ ret'[p] = ret[p]
          /\ (NonHolder(p) /\ ReleaseReturns(p)) =>
                 /\ rosterFile' = rosterFile
                 /\ ret'[p] = "Ok"]_vars

\* The roster file records Exclusive([p]).
ExclusiveRecorded(file, p) ==
    /\ file.exists
    /\ FromJson(file.data).ok
    /\ FromJson(file.data).roster = Exclusive(<<get_process_id(p)>>)

(* C19: roster and guard directory stay consistent.  Without I/O errors,     *)
(* whenever the roster file records Exclusive([p]), the guard directory      *)
(* exists, holds the marker of p and belongs to the ExclusiveLock of the     *)
(* Lock of p.  The step that writes the entry of p finds the directory       *)
(* there (created before by p), and the step that removes the directory      *)
(* finds no Exclusive entry in the roster (removed before).                  *)
C19_RosterGuardConsistent ==
    [][\A p \in Procs :
          /\ ExclusiveRecorded(rosterFile', p) =>
                /\ guardDir'
                /\ Marker(p) \in markers'
                /\ exclusive'[p]
                /\ pc'[p] \notin {"drop_file", "drop_dir", "gone"}
          /\ (~ExclusiveRecorded(rosterFile, p)
              /\ ExclusiveRecorded(rosterFile', p)) =>
                /\ pc[p] = "le_write"
                /\ guardDir /\ Marker(p) \in markers
          /\ (guardDir /\ ~guardDir') =>
                ~ExclusiveRecorded(rosterFile, p)]_vars

\* The Lock of p, which acquired and wrote Exclusive([p]) under its guard
\* directory, is being dropped: the roster file is gone already, the guard
\* directory and the marker of p are there still.
C19_Witness ==
    \E p \in Procs :
        /\ pc[p] = "drop_file"
        /\ op[p] = "lock_exclusive" /\ ret[p] = "Ok"
        /\ exclusive[p]
        /\ ~rosterFile.exists
        /\ guardDir /\ markers = {Marker(p)}

\* Every Lock has been destroyed.
AllDestroyed == \A p \in Procs : pc[p] = "gone"

\* Every Lock but that of p has been destroyed.
OthersDestroyed(p) == \A q \in Procs \ {p} : pc[q] = "gone"

(* C20: no permanent lockout without a crash.  After any sequence of         *)
(* lock_exclusive(), release() and drops, without I/O errors: once every     *)
(* Lock is destroyed, the guard directory, the markers and the roster file   *)
(* are gone; a Lock constructed and not yet used, with every other Lock      *)
(* destroyed, finds no guard directory and no roster file; and a             *)
(* lock_exclusive() that returns when every other Lock is destroyed returns  *)
(* Ok.                                                                       *)
C20_NoPermanentLockout ==
    [][/\ AllDestroyed' =>
             ~guardDir' /\ markers' = {} /\ ~rosterFile'.exists
       /\ \A p \in Procs :
             /\ (OthersDestroyed(p)' /\ op'[p] = "new") =>
                   ~guardDir' /\ markers' = {} /\ ~rosterFile'.exists
             /\ (OthersDestroyed(p) /\ LockExclusiveReturns(p)) =>
                   ret'[p] = "Ok"]_vars

\* Every Lock is destroyed, one after it acquired and released, one after
\* it acquired; the directory is empty.
C20_Witness ==
    /\ AllDestroyed
    /\ \E p, q \in Procs :
          /\ p # q
          /\ op[p] = "release" /\ ret[p] = "Ok"
          /\ op[q] = "lock_exclusive" /\ ret[q] = "Ok"
    /\ ~guardDir /\ markers = {} /\ ~rosterFile.exists

====
